---- MODULE Spec2Model ----
(***************************************************************************)
(* Model of source/conf.py, the Sphinx configuration module of the         *)
(* genogrove documentation.                                                *)
(*                                                                         *)
(* The module is executed top to bottom, one statement at a time, into a   *)
(* fresh namespace that the build tool has seeded with __file__.  The      *)
(* state is that namespace (ns), the position of the load (pc), the        *)
(* inputs of the single computed value (__file__ and the current working   *)
(* directory), and the part of the build tool that reads the namespace.    *)
(*                                                                         *)
(* Path strings are sequences of tokens: the separator "/" or a path       *)
(* segment ("..", ".", a name).  The os.path functions that conf.py calls  *)
(* (POSIX flavour) are operators over such strings.                        *)
(***************************************************************************)
EXTENDS Integers, Sequences, FiniteSets, TLC

VARIABLES pc, ns, executed, writes, file, cwd, confDir, build, phase,
          config, consumed, prev

vars == <<pc, ns, executed, writes, file, cwd, confDir, build, phase,
          config, consumed, prev>>

\* ---------------------------------------------------------------- bounds
\* Number of documentation builds a behaviour runs through.
MaxBuilds == 2
\* Deepest directory the configuration file or the working directory is in.
MaxDepth == 2

\* ------------------------------------------------------ generic helpers
Range(s) == {s[i] : i \in DOMAIN s}

NoDuplicates(s) == \A i, j \in DOMAIN s : i # j => s[i] # s[j]

Front(s) == SubSeq(s, 1, Len(s) - 1)

\* ---------------------------------------------------- os.path (posixpath)
Slash == "/"

\* p.startswith("/")
isabs(p) == Len(p) > 0 /\ p[1] = Slash

\* p.rfind("/") + 1, as a 1-based count of tokens up to the last separator
RECURSIVE rfindSlash(_, _)
rfindSlash(p, i) ==
    IF i = 0 THEN 0
    ELSE IF p[i] = Slash THEN i
    ELSE rfindSlash(p, i - 1)

\* head.rstrip("/")
RECURSIVE rstripSlash(_)
rstripSlash(p) ==
    IF Len(p) > 0 /\ p[Len(p)] = Slash THEN rstripSlash(Front(p)) ELSE p

\* os.path.dirname
dirname(p) ==
    LET head == SubSeq(p, 1, rfindSlash(p, Len(p)))
    IN  IF Len(head) > 0 /\ \E i \in DOMAIN head : head[i] # Slash
        THEN rstripSlash(head)
        ELSE head

\* os.path.join(a, b)
join(a, b) ==
    IF isabs(b) THEN b
    ELSE IF Len(a) = 0 \/ a[Len(a)] = Slash THEN a \o b
    ELSE a \o <<Slash>> \o b

\* the loop of os.path.normpath over the components of the path
RECURSIVE normComps(_, _, _)
normComps(comps, new, initial) ==
    IF comps = <<>> THEN new
    ELSE LET comp == Head(comps)
             rest == Tail(comps)
         IN  IF comp = "." THEN normComps(rest, new, initial)
             ELSE IF \/ comp # ".."
                     \/ (initial = 0 /\ new = <<>>)
                     \/ (new # <<>> /\ new[Len(new)] = "..")
                  THEN normComps(rest, Append(new, comp), initial)
             ELSE IF new # <<>> THEN normComps(rest, Front(new), initial)
             ELSE normComps(rest, new, initial)

\* "/".join(comps)
RECURSIVE joinSlash(_)
joinSlash(comps) ==
    IF comps = <<>> THEN <<>>
    ELSE IF Len(comps) = 1 THEN comps
    ELSE <<Head(comps), Slash>> \o joinSlash(Tail(comps))

\* os.path.normpath
normpath(p) ==
    IF p = <<>> THEN <<".">>
    ELSE LET initial ==
                 IF ~isabs(p) THEN 0
                 ELSE IF Len(p) >= 2 /\ p[2] = Slash
                         /\ ~(Len(p) >= 3 /\ p[3] = Slash)
                      THEN 2
                 ELSE 1
             comps == SelectSeq(p, LAMBDA t : t # Slash)
             body == joinSlash(normComps(comps, <<>>, initial))
             path == [i \in 1..initial |-> Slash] \o body
         IN  IF path = <<>> THEN <<".">> ELSE path

\* Mutant of abspath: a relative path is normalised but not anchored at the
\* working directory.
abspath_unanchored(p, wd) == normpath(p)

\* os.path.abspath, with os.getcwd() passed as wd
abspath(p, wd) ==
    normpath(IF isabs(p) THEN p ELSE join(wd, p))


\* ------------------------------------------------- the values of conf.py
project == "genogrove"
copyright == "2026, Richard. A. Schaefer"
author == "Richard. A. Schaefer"
\* Mutant of release: the version string of the previous release.
release_stale == "0.13.0"
release == "0.14.0"

\* Mutant of extensions: an entry listed twice.
extensions_duplicated ==
    << "myst_parser",
       "breathe",
       "sphinx.ext.autodoc",
       "sphinx.ext.napoleon",
       "sphinx.ext.viewcode",
       "sphinx_copybutton",
       "sphinx_design",
       "sphinx_copybutton" >>

\* Mutant of extensions: options are kept for an extension no longer listed.
extensions_without_copybutton ==
    << "myst_parser",
       "breathe",
       "sphinx.ext.autodoc",
       "sphinx.ext.napoleon",
       "sphinx.ext.viewcode",
       "sphinx_design" >>

extensions ==
    << "myst_parser",
       "breathe",
       "sphinx.ext.autodoc",
       "sphinx.ext.napoleon",
       "sphinx.ext.viewcode",
       "sphinx_copybutton",
       "sphinx_design" >>

\* os.path.abspath(os.path.join(os.path.dirname(__file__), "../doxygen/xml"))
DoxygenXml == <<"..", Slash, "doxygen", Slash, "xml">>

\* Mutant of BreatheXmlDir: the path is taken relative to the working
\* directory instead of the directory of conf.py.
BreatheXmlDir_cwd(f, wd) == abspath(DoxygenXml, wd)

BreatheXmlDir(f, wd) == abspath(join(dirname(f), DoxygenXml), wd)

breathe_projects(f, wd) == [genogrove |-> BreatheXmlDir(f, wd)]

\* Mutant of breathe_default_project: a project name that is not configured.
breathe_default_project_unknown == "default"
breathe_default_project == "genogrove"
breathe_default_members == <<"members", "undoc-members">>
breathe_show_include == FALSE

templates_path == <<"_templates">>
exclude_patterns == <<>>

source_suffix == (".rst" :> "restructuredtext") @@ (".md" :> "markdown")

myst_enable_extensions ==
    << "colon_fence", "deflist", "fieldlist", "html_image", "linkify",
       "replacements", "smartquotes", "strikethrough", "substitution",
       "tasklist" >>

myst_heading_anchors == 3

copybutton_prompt_text ==
    ">>> |\\.\\.\\. |\\$ |In \\[\\d*\\]: | {2,5}\\.\\.\\.: | {5,8}: "
copybutton_prompt_is_regexp == TRUE
copybutton_line_continuation_character == "\\"
copybutton_here_doc_delimiter == "EOT"
copybutton_selector == "div.highlight pre"

autodoc_default_options ==
    ("members" :> TRUE) @@ ("undoc-members" :> TRUE)
        @@ ("show-inheritance" :> TRUE)

html_theme == "pydata_sphinx_theme"
html_static_path == <<"_static">>

\* Mutant of html_theme_options: an icon link without its type.
html_theme_options_untyped_icon ==
    [ github_url |-> "https://github.com/genogrove/genogrove",
      navbar_align |-> "left",
      navbar_start |-> <<"navbar-logo">>,
      navbar_center |-> <<"navbar-nav">>,
      navbar_end |-> <<"navbar-icon-links">>,
      navbar_persistent |-> <<"search-button">>,
      show_toc_level |-> 3,
      navigation_depth |-> 4,
      icon_links |->
          << [ name |-> "GitHub",
               url |-> "https://github.com/genogrove/genogrove",
               icon |-> "fab fa-github-square" ] >> ]

\* Mutant of html_theme_options: the two repository links differ.
html_theme_options_other_repo ==
    [ github_url |-> "https://github.com/genogrove/docs",
      navbar_align |-> "left",
      navbar_start |-> <<"navbar-logo">>,
      navbar_center |-> <<"navbar-nav">>,
      navbar_end |-> <<"navbar-icon-links">>,
      navbar_persistent |-> <<"search-button">>,
      show_toc_level |-> 3,
      navigation_depth |-> 4,
      icon_links |->
          << [ name |-> "GitHub",
               url |-> "https://github.com/genogrove/genogrove",
               icon |-> "fab fa-github-square",
               type |-> "fontawesome" ] >> ]

html_theme_options ==
    [ github_url |-> "https://github.com/genogrove/genogrove",
      navbar_align |-> "left",
      navbar_start |-> <<"navbar-logo">>,
      navbar_center |-> <<"navbar-nav">>,
      navbar_end |-> <<"navbar-icon-links">>,
      navbar_persistent |-> <<"search-button">>,
      show_toc_level |-> 3,
      navigation_depth |-> 4,
      icon_links |->
          << [ name |-> "GitHub",
               url |-> "https://github.com/genogrove/genogrove",
               icon |-> "fab fa-github-square",
               type |-> "fontawesome" ] >> ]

html_sidebars == ("**" :> <<"sidebar-nav-bs">>)

\* ------------------------------------------- the statements of conf.py
\* Mutant of Program: the assignment to source_suffix is missing.
Program_without_source_suffix ==
    << "os",
       "project", "copyright", "author", "release",
       "extensions",
       "breathe_projects", "breathe_default_project",
       "breathe_default_members", "breathe_show_include",
       "templates_path", "exclude_patterns",
       "myst_enable_extensions", "myst_heading_anchors",
       "copybutton_prompt_text", "copybutton_prompt_is_regexp",
       "copybutton_line_continuation_character",
       "copybutton_here_doc_delimiter", "copybutton_selector",
       "autodoc_default_options",
       "html_theme", "html_static_path", "html_theme_options",
       "html_sidebars" >>

\* The names the module binds, in the order of its statements.
Program ==
    << "os",
       "project", "copyright", "author", "release",
       "extensions",
       "breathe_projects", "breathe_default_project",
       "breathe_default_members", "breathe_show_include",
       "templates_path", "exclude_patterns",
       "source_suffix", "myst_enable_extensions", "myst_heading_anchors",
       "copybutton_prompt_text", "copybutton_prompt_is_regexp",
       "copybutton_line_continuation_character",
       "copybutton_here_doc_delimiter", "copybutton_selector",
       "autodoc_default_options",
       "html_theme", "html_static_path", "html_theme_options",
       "html_sidebars" >>

\* The right-hand side of the assignment to a name that is a literal.
Literal(name) ==
    CASE name = "project" -> project
      [] name = "copyright" -> copyright
      [] name = "author" -> author
      [] name = "release" -> release
      [] name = "extensions" -> extensions
      [] name = "breathe_default_project" -> breathe_default_project
      [] name = "breathe_default_members" -> breathe_default_members
      [] name = "breathe_show_include" -> breathe_show_include
      [] name = "templates_path" -> templates_path
      [] name = "exclude_patterns" -> exclude_patterns
      [] name = "source_suffix" -> source_suffix
      [] name = "myst_enable_extensions" -> myst_enable_extensions
      [] name = "myst_heading_anchors" -> myst_heading_anchors
      [] name = "copybutton_prompt_text" -> copybutton_prompt_text
      [] name = "copybutton_prompt_is_regexp" -> copybutton_prompt_is_regexp
      [] name = "copybutton_line_continuation_character" ->
             copybutton_line_continuation_character
      [] name = "copybutton_here_doc_delimiter" ->
             copybutton_here_doc_delimiter
      [] name = "copybutton_selector" -> copybutton_selector
      [] name = "autodoc_default_options" -> autodoc_default_options
      [] name = "html_theme" -> html_theme
      [] name = "html_static_path" -> html_static_path
      [] name = "html_theme_options" -> html_theme_options
      [] name = "html_sidebars" -> html_sidebars

Done == Len(Program) + 1

\* Mutant of NextStatement: a statement is jumped over.
NextStatement_skipping(i) == i + 2

\* Module execution falls through to the next statement.
NextStatement(i) == i + 1

\* Binding a name in the module namespace (a dict store).
Bind(n, k, v) == [x \in DOMAIN n \cup {k} |-> IF x = k THEN v ELSE n[x]]


\* --------------------------------------- where the build finds conf.py
\* Directories as lists of names below the root: two top-level
\* directories, each with a chain of subdirectories.
Dirs ==
    { d \in UNION { [1..n -> {"a", "b"}] : n \in 0..MaxDepth } :
        \A i \in DOMAIN d : i > 1 => d[i] = "a" }

\* The absolute path string of a directory.
Render(d) == <<Slash>> \o joinSlash(d)

\* Length of the longest common prefix of two directories.
RECURSIVE commonLen(_, _)
commonLen(x, y) ==
    IF x # <<>> /\ y # <<>> /\ Head(x) = Head(y)
    THEN 1 + commonLen(Tail(x), Tail(y))
    ELSE 0

\* conf.py in directory d named relative to the working directory w.
Relative(d, w) ==
    LET i == commonLen(d, w)
    IN  joinSlash([j \in 1..(Len(w) - i) |-> ".."]
                  \o SubSeq(d, i + 1, Len(d)) \o <<"conf.py">>)

Spellings == {"absolute", "relative", "dotted"}

\* The value of __file__ for conf.py in directory d, loaded from w.
FileName(d, w, k) ==
    CASE k = "absolute" -> join(Render(d), <<"conf.py">>)
      [] k = "relative" -> Relative(d, w)
      [] k = "dotted" -> <<".", Slash>> \o Relative(d, w)

\* ---------------------------------------------------------------- state
NoNames == [x \in {} |-> 0]

Init ==
    /\ phase = "idle"
    /\ build = 0
    /\ pc = 0
    /\ ns = NoNames
    /\ executed = [i \in DOMAIN Program |-> 0]
    /\ writes = [n \in Range(Program) |-> 0]
    /\ file = <<>>
    /\ cwd = <<>>
    /\ confDir = <<>>
    /\ config = NoNames
    /\ consumed = 0
    /\ prev = <<>>

\* The build tool starts a build: it executes conf.py, found in directory
\* d, in a fresh namespace that holds __file__, with working directory w.
StartBuild(d, w, k) ==
    /\ phase = "idle"
    /\ build < MaxBuilds
    /\ build' = build + 1
    /\ phase' = "loading"
    /\ confDir' = d
    /\ cwd' = Render(w)
    /\ file' = FileName(d, w, k)
    /\ ns' = Bind(NoNames, "__file__", FileName(d, w, k))
    /\ pc' = 1
    /\ executed' = [i \in DOMAIN Program |-> 0]
    /\ writes' = [n \in Range(Program) |-> 0]
    /\ config' = NoNames
    /\ consumed' = 0
    /\ UNCHANGED prev

\* One statement of the module binds name to value and falls through.
Execute(name, value) ==
    /\ phase = "loading"
    /\ pc \in DOMAIN Program
    /\ Program[pc] = name
    /\ ns' = Bind(ns, name, value)
    /\ executed' = [executed EXCEPT ![pc] = @ + 1]
    /\ writes' = [writes EXCEPT ![name] = @ + 1]
    /\ pc' = NextStatement(pc)
    /\ phase' = IF NextStatement(pc) \in DOMAIN Program
                THEN "loading" ELSE "loaded"
    /\ UNCHANGED <<file, cwd, confDir, build, config, consumed, prev>>

\* import os
ImportOs == Execute("os", [module |-> "os"])

\* name = <literal>
AssignLiteral ==
    \E name \in Range(Program) \ {"os", "breathe_projects"} :
        Execute(name, Literal(name))

\* breathe_projects = {"genogrove": os.path.abspath(...)}
AssignBreatheProjects ==
    /\ "__file__" \in DOMAIN ns
    /\ Execute("breathe_projects", breathe_projects(ns["__file__"], cwd))

\* The names the build tool takes from the namespace.
ConfigNames == Range(Program) \ {"os"}

\* The build tool reads the loaded namespace into its configuration.
Consume ==
    /\ phase = "loaded"
    /\ config' = [n \in DOMAIN ns \cap ConfigNames |-> ns[n]]
    /\ consumed' = consumed + 1
    /\ phase' = "consumed"
    /\ UNCHANGED <<pc, ns, executed, writes, file, cwd, confDir, build, prev>>

\* The build ends: namespace and configuration are dropped.  prev keeps a
\* record of the finished build for comparison with the next one.
Discard ==
    /\ phase = "consumed"
    /\ prev' = <<[confDir |-> confDir, cwd |-> cwd, config |-> config,
                  consumed |-> consumed]>>
    /\ ns' = NoNames
    /\ config' = NoNames
    /\ phase' = "idle"
    /\ pc' = 0
    /\ UNCHANGED <<executed, writes, file, cwd, confDir, build, consumed>>

Load == ImportOs \/ AssignLiteral \/ AssignBreatheProjects

Next ==
    \/ \E d \in Dirs, w \in Dirs, k \in Spellings : StartBuild(d, w, k)
    \/ ImportOs
    \/ AssignLiteral
    \/ AssignBreatheProjects
    \/ Consume
    \/ Discard

Spec == Init /\ [][Next]_vars

\* A build started in the directory of conf.py, which it names absolutely.
StartInPlace == \E d \in Dirs : StartBuild(d, d, "absolute")

NextInPlace ==
    \/ StartInPlace
    \/ ImportOs
    \/ AssignLiteral
    \/ AssignBreatheProjects
    \/ Consume
    \/ Discard

\* Module execution is sequential and nothing in it blocks: a started load
\* keeps executing statements.
FairSpec == Init /\ [][NextInPlace]_vars /\ WF_vars(Load)


\* ================================================================ claims
Loaded == phase \in {"loaded", "consumed"}

Metadata == {"project", "copyright", "author", "release"}

MetadataValue ==
    [ project |-> "genogrove",
      copyright |-> "2026, Richard. A. Schaefer",
      author |-> "Richard. A. Schaefer",
      release |-> "0.14.0" ]

\* C1: project, copyright, author and release are each assigned exactly
\* once during a load, and from their assignment to the end of the load
\* they hold "genogrove", "2026, Richard. A. Schaefer",
\* "Richard. A. Schaefer" and "0.14.0".
C1_MetadataSetOnce ==
    \A n \in Metadata :
        /\ writes[n] <= 1
        /\ n \in DOMAIN ns => writes[n] = 1 /\ ns[n] = MetadataValue[n]
        /\ Loaded => n \in DOMAIN ns

C1_Witness ==
    /\ phase = "loaded"
    /\ \A n \in Metadata : writes[n] = 1 /\ ns[n] = MetadataValue[n]

ToolNames ==
    { "project", "copyright", "author", "release", "extensions",
      "html_theme", "html_theme_options", "breathe_projects",
      "autodoc_default_options", "source_suffix" }

\* C2: once the module has loaded, every name the build tool reads by
\* convention is defined in the namespace, and in the configuration the
\* tool takes from it.
C2_ToolNamesDefined ==
    /\ Loaded => ToolNames \subseteq DOMAIN ns
    /\ phase = "consumed" => ToolNames \subseteq DOMAIN config

C2_Witness ==
    phase = "consumed" /\ ToolNames \subseteq DOMAIN config

NamedExtensions ==
    { "myst_parser", "breathe", "sphinx.ext.autodoc", "sphinx_copybutton",
      "sphinx_design" }

\* C3 as stated: the extensions list is non-empty and duplicate-free, and
\* the extensions it enables are exactly the five the specification names.
C3_ExactlyNamedExtensions ==
    "extensions" \in DOMAIN ns =>
        /\ Len(ns["extensions"]) > 0
        /\ NoDuplicates(ns["extensions"])
        /\ Range(ns["extensions"]) = NamedExtensions

\* C3 amended: the extensions list is non-empty and duplicate-free, each
\* of the five named extensions is enabled, and the only other entries are
\* sphinx.ext.napoleon and sphinx.ext.viewcode.
C3_NamedExtensionsAndTwoMore ==
    "extensions" \in DOMAIN ns =>
        /\ Len(ns["extensions"]) > 0
        /\ NoDuplicates(ns["extensions"])
        /\ Range(ns["extensions"]) =
               NamedExtensions \cup
                   {"sphinx.ext.napoleon", "sphinx.ext.viewcode"}

C3_Witness ==
    /\ phase = "loaded"
    /\ "sphinx.ext.viewcode" \in Range(ns["extensions"])
    /\ NamedExtensions \subseteq Range(ns["extensions"])

\* <directory of conf.py>/../doxygen/xml, absolute and normalised.
ExpectedXml(d) ==
    Render((IF d = <<>> THEN <<>> ELSE Front(d)) \o <<"doxygen", "xml">>)

\* C4: breathe_projects["genogrove"] is computed once per load, is the
\* absolute normalised path of <directory of conf.py>/../doxygen/xml, and
\* a load from the same location as the previous build's yields the same
\* value whatever the working directories were.
C4_XmlDirFromFileLocation ==
    /\ writes["breathe_projects"] <= 1
    /\ "breathe_projects" \in DOMAIN ns =>
        /\ writes["breathe_projects"] = 1
        /\ DOMAIN ns["breathe_projects"] = {"genogrove"}
        /\ ns["breathe_projects"]["genogrove"] = ExpectedXml(confDir)
        /\ (prev # <<>> /\ prev[1].confDir = confDir) =>
               prev[1].config["breathe_projects"] = ns["breathe_projects"]

C4_Witness ==
    /\ phase = "loaded"
    /\ prev # <<>>
    /\ prev[1].confDir = confDir
    /\ prev[1].cwd # cwd
    /\ ~isabs(file)
    /\ Len(confDir) = 2
    /\ prev[1].config["breathe_projects"] = ns["breathe_projects"]

NavigationKeys ==
    { "navbar_align", "navbar_start", "navbar_center", "navbar_end",
      "navbar_persistent", "show_toc_level", "navigation_depth" }

C6_StraightLine ==
    /\ [](phase \in {"loading", "loaded", "consumed"} =>
            \A i \in DOMAIN Program :
                executed[i] = IF i < pc THEN 1 ELSE 0)
    /\ [](Loaded => pc = Done)
    /\ ((phase = "loading") ~> (phase = "loaded"))

C6_Witness ==
    /\ phase = "loaded"
    /\ pc = Done
    /\ \A i \in DOMAIN Program : executed[i] = 1

\* C7: per build the configuration is constructed, then consumed, then
\* discarded: it is consumed only after the load has finished and once per
\* build, a build starts from a namespace holding nothing of the previous
\* one, and a build from the same location as the previous build consumes
\* the same configuration values.
C7_Lifecycle ==
    /\ consumed <= 1
    /\ consumed = 1 => phase \in {"consumed", "idle"}
    /\ phase = "consumed" =>
           /\ consumed = 1
           /\ pc = Done
           /\ \A i \in DOMAIN Program : executed[i] = 1
           /\ DOMAIN config = ConfigNames
           /\ \A n \in ConfigNames : config[n] = ns[n]
    /\ phase \in {"loading", "loaded"} => consumed = 0 /\ config = NoNames
    /\ phase = "idle" => ns = NoNames /\ config = NoNames
    /\ (phase = "loading" /\ pc = 1) => DOMAIN ns = {"__file__"}
    /\ prev # <<>> => prev[1].consumed = 1
    /\ (phase = "consumed" /\ prev # <<>> /\ prev[1].confDir = confDir) =>
           config = prev[1].config

C7_Witness ==
    /\ phase = "consumed"
    /\ build = 2
    /\ prev # <<>>
    /\ prev[1].confDir = confDir
    /\ prev[1].cwd # cwd
    /\ config = prev[1].config

\* C8: breathe_default_project is a key of breathe_projects.
C8_DefaultProjectDefined ==
    "breathe_default_project" \in DOMAIN ns =>
        /\ "breathe_projects" \in DOMAIN ns
        /\ ns["breathe_default_project"] \in DOMAIN ns["breathe_projects"]

C8_Witness ==
    /\ phase = "loaded"
    /\ ns["breathe_default_project"] = "genogrove"
    /\ "genogrove" \in DOMAIN ns["breathe_projects"]

\* The extension each option group belongs to.
OptionOwner ==
    [ breathe_projects |-> "breathe",
      breathe_default_project |-> "breathe",
      breathe_default_members |-> "breathe",
      breathe_show_include |-> "breathe",
      myst_enable_extensions |-> "myst_parser",
      myst_heading_anchors |-> "myst_parser",
      copybutton_prompt_text |-> "sphinx_copybutton",
      copybutton_prompt_is_regexp |-> "sphinx_copybutton",
      copybutton_line_continuation_character |-> "sphinx_copybutton",
      copybutton_here_doc_delimiter |-> "sphinx_copybutton",
      copybutton_selector |-> "sphinx_copybutton",
      autodoc_default_options |-> "sphinx.ext.autodoc" ]

\* C9: every extension-specific option the namespace holds belongs to an
\* extension the extensions list enables, and the markdown entry of
\* source_suffix is there only with myst_parser enabled.
C9_OptionsOfEnabledExtensions ==
    /\ \A n \in DOMAIN ns \cap DOMAIN OptionOwner :
           /\ "extensions" \in DOMAIN ns
           /\ OptionOwner[n] \in Range(ns["extensions"])
    /\ ("source_suffix" \in DOMAIN ns
            /\ \E k \in DOMAIN ns["source_suffix"] :
                   ns["source_suffix"][k] = "markdown") =>
           /\ "extensions" \in DOMAIN ns
           /\ "myst_parser" \in Range(ns["extensions"])

C9_Witness ==
    /\ phase = "loaded"
    /\ DOMAIN OptionOwner \subseteq DOMAIN ns
    /\ ns["source_suffix"][".md"] = "markdown"

\* C10: html_theme_options["github_url"] equals the url of the icon link
\* named "GitHub".
C10_GithubUrlsAgree ==
    "html_theme_options" \in DOMAIN ns =>
        LET o == ns["html_theme_options"]
        IN  /\ \E i \in DOMAIN o["icon_links"] :
                   o["icon_links"][i]["name"] = "GitHub"
            /\ \A i \in DOMAIN o["icon_links"] :
                   o["icon_links"][i]["name"] = "GitHub" =>
                       o["icon_links"][i]["url"] = o["github_url"]

C10_Witness ==
    /\ phase = "loaded"
    /\ \E i \in DOMAIN ns["html_theme_options"]["icon_links"] :
           /\ ns["html_theme_options"]["icon_links"][i]["name"] = "GitHub"
           /\ ns["html_theme_options"]["icon_links"][i]["url"] =
                  "https://github.com/genogrove/genogrove"

====
